---- MODULE Spec2Model ----
(***************************************************************************)
(* A model of the multiset AVL tree of src/src/avl.rs (MultiAVL<T>) and of *)
(* its cursor (MultiAVLTreeIter<T>).                                       *)
(*                                                                         *)
(* Nodes live in a heap addressed by handles.  A strong reference          *)
(* (Rc<RefCell<Node>>) and a weak one (Weak<RefCell<Node>>) are both a     *)
(* handle; the domain of `nodes` is the set of handles whose strong count  *)
(* is positive, so Weak::upgrade succeeds exactly on a handle of that      *)
(* domain.  Option::None is Nil.                                           *)
(***************************************************************************)
EXTENDS Integers, Sequences, FiniteSets, TLC

\* ------------------------------------------------------------------ bounds
MaxVal == 5
MaxSize == 5
IterMaxVal == 4
IterMaxSize == 4

Values == 1..MaxVal
Ids == 1..MaxVal

\* Option::None, for links and for the return value of next()
Nil == 0
\* a Weak whose node has been dropped: upgrade() gives None for ever
Dangling == 0 - 1

Max(a, b) == IF a >= b THEN a ELSE b

\* --------------------------------------------------------------- the state
VARIABLES nodes, root, size, min_node, max_node, panic, it, bag, last, trav

vars == <<nodes, root, size, min_node, max_node, panic, it, bag, last, trav>>

\* the tree as one value, for the operators below; levels and rots are the
\* record of the call in progress: one entry per rebalance_node call and one
\* per rotate_left / rotate_right call, empty when a call starts
T == [nodes |-> nodes, root |-> root, size |-> size,
      min_node |-> min_node, max_node |-> max_node, panic |-> panic,
      levels |-> <<>>, rots |-> <<>>]

\* ---------------------------------------------------------------- Node
Node_new(data, parent) ==
    [data |-> data, left |-> Nil, right |-> Nil, parent |-> parent,
     height |-> 0, counter |-> 1]

left_height(t, n) ==
    IF t.nodes[n].left # Nil THEN t.nodes[t.nodes[n].left].height + 1 ELSE 0

right_height(t, n) ==
    IF t.nodes[n].right # Nil THEN t.nodes[t.nodes[n].right].height + 1 ELSE 0

Node_adjust_height(t, n) ==
    [t EXCEPT !.nodes[n].height = Max(left_height(t, n), right_height(t, n))]

get_balance_factor(t, n) == left_height(t, n) - right_height(t, n)

count_children(t, n) ==
    (IF t.nodes[n].left # Nil THEN 1 ELSE 0) + (IF t.nodes[n].right # Nil THEN 1 ELSE 0)

\* Weak::upgrade: the handle if its node is still allocated, else None
upgrade(t, w) == IF w \in DOMAIN t.nodes THEN w ELSE Nil

\* A failed unwrap, debug assertion, panic! or arithmetic underflow.  The call
\* unwinds: no operator below changes a tree that has panicked.
Panic(t) == [t EXCEPT !.panic = TRUE]

\* ------------------------------------------------------- MultiAVL: queries
MultiAVL_new ==
    [nodes |-> <<>>, root |-> Nil, size |-> 0, min_node |-> Nil, max_node |-> Nil,
     panic |-> FALSE, levels |-> <<>>, rots |-> <<>>]

is_empty(t) == t.size = 0

\* find_node descending to the wrong side
RECURSIVE find_from_wrong_side(_, _, _)
find_from_wrong_side(t, value, node) ==
    IF node = Nil THEN Nil
    ELSE IF value = t.nodes[node].data THEN node
    ELSE IF value > t.nodes[node].data
    THEN find_from_wrong_side(t, value, t.nodes[node].left)
    ELSE find_from_wrong_side(t, value, t.nodes[node].right)

RECURSIVE find_from(_, _, _)
find_from(t, value, node) ==
    IF node = Nil THEN Nil
    ELSE IF value = t.nodes[node].data THEN node
    ELSE IF value < t.nodes[node].data THEN find_from(t, value, t.nodes[node].left)
    ELSE find_from(t, value, t.nodes[node].right)

find_node(t, value) == find_from(t, value, t.root)

contains(t, value) == find_node(t, value) # Nil

RECURSIVE walk_right(_, _)
walk_right(t, node) ==
    IF t.nodes[node].right # Nil THEN walk_right(t, t.nodes[node].right) ELSE node

RECURSIVE walk_left(_, _)
walk_left(t, node) ==
    IF t.nodes[node].left # Nil THEN walk_left(t, t.nodes[node].left) ELSE node

find_max_node(t) == IF t.root = Nil THEN Nil ELSE walk_right(t, t.root)

find_min_node(t) == IF t.root = Nil THEN Nil ELSE walk_left(t, t.root)

max_value(t) == IF t.max_node # Nil THEN t.nodes[t.max_node].data ELSE Nil

min_value(t) == IF t.min_node # Nil THEN t.nodes[t.min_node].data ELSE Nil

\* the comparison with max_node never succeeds
is_max_node_never(t, node) == FALSE

is_max_node(t, node) == t.max_node # Nil /\ t.max_node = node

\* the comparison with min_node never succeeds
is_min_node_never(t, node) == FALSE

is_min_node(t, node) == t.min_node # Nil /\ t.min_node = node

\* ------------------------------------------------- MultiAVL: link helpers
\* the smaller of the two slot heights taken
adjust_height_min(t, n) ==
    [t EXCEPT !.nodes[n].height =
        IF left_height(t, n) <= right_height(t, n) THEN left_height(t, n)
        ELSE right_height(t, n)]

adjust_height(t, n) ==
    [t EXCEPT !.nodes[n].height = Max(left_height(t, n), right_height(t, n))]

\* the tree after node.<side>.take(); the taken child keeps its parent link
remove_node(side, t, node) ==
    adjust_height([t EXCEPT !.nodes[node][side] = Nil], node)

remove_left(t, node) == remove_node("left", t, node)

remove_right(t, node) == remove_node("right", t, node)

link_node(side, t, parent, child) ==
    adjust_height([t EXCEPT !.nodes[child].parent = parent,
                            !.nodes[parent][side] = child], parent)

link_right_node(t, parent, child) == link_node("right", t, parent, child)

link_left_node(t, parent, child) == link_node("left", t, parent, child)

\* ----------------------------------------------------- rotation, rebalance
\* the slot of `parent` that holds `node`, as rotate_left/rotate_right decide it
slot_of(t, parent, node) ==
    IF t.nodes[parent].left # Nil /\ t.nodes[parent].left = node THEN "left" ELSE "right"

\* the record of one rotation: the pivot, the child promoted over it, the
\* nodes whose stored height differs between entry and exit of the call, and
\* the nodes and the root at entry and at exit
rotated(before, after, node, child) ==
    [after EXCEPT !.rots = Append(@,
        [node |-> node, child |-> child,
         changed |-> {m \in DOMAIN before.nodes :
                        after.nodes[m].height # before.nodes[m].height},
         pre |-> [nodes |-> before.nodes, root |-> before.root],
         post |-> [nodes |-> after.nodes, root |-> after.root]])]

\* the left subtree of the promoted child is taken out and hung nowhere
rotate_left_drops_inner(t, node) ==
    LET right_child == t.nodes[node].right
        \* t3: right_child is taken out and its left subtree hangs right of node
        relink(t3) ==
            LET v == t3.nodes[node].parent
                up == IF v # Nil
                      THEN link_node(slot_of(t3, v, node), t3, v, right_child)
                      ELSE [t3 EXCEPT !.root = right_child,
                                      !.nodes[right_child].parent = Nil]
            IN  IF v # Nil /\ upgrade(t3, v) = Nil THEN Panic(t3)
                ELSE adjust_height(
                         adjust_height(link_left_node(up, right_child, node), node),
                         right_child)
        \* t2: right_child is taken out and has lost its left subtree left_node
        hang(t2, left_node) == relink(t2)
        \* t1: right_child is taken out of node
        taken(t1) ==
            IF right_child = Nil THEN t1
            ELSE hang(remove_left(t1, right_child), t1.nodes[right_child].left)
    IN  IF t.panic THEN t
        ELSE rotated(t, taken(remove_right(t, node)), node, right_child)

rotate_left(t, node) ==
    LET right_child == t.nodes[node].right
        \* t3: right_child is taken out and its left subtree hangs right of node
        relink(t3) ==
            LET v == t3.nodes[node].parent
                up == IF v # Nil
                      THEN link_node(slot_of(t3, v, node), t3, v, right_child)
                      ELSE [t3 EXCEPT !.root = right_child,
                                      !.nodes[right_child].parent = Nil]
            IN  IF v # Nil /\ upgrade(t3, v) = Nil THEN Panic(t3)
                ELSE adjust_height(
                         adjust_height(link_left_node(up, right_child, node), node),
                         right_child)
        \* t2: right_child is taken out and has lost its left subtree left_node
        hang(t2, left_node) ==
            relink(IF left_node # Nil THEN link_right_node(t2, node, left_node) ELSE t2)
        \* t1: right_child is taken out of node
        taken(t1) ==
            IF right_child = Nil THEN t1
            ELSE hang(remove_left(t1, right_child), t1.nodes[right_child].left)
    IN  IF t.panic THEN t
        ELSE rotated(t, taken(remove_right(t, node)), node, right_child)

rotate_right(t, node) ==
    LET left_child == t.nodes[node].left
        relink(t3) ==
            LET v == t3.nodes[node].parent
                up == IF v # Nil
                      THEN link_node(slot_of(t3, v, node), t3, v, left_child)
                      ELSE [t3 EXCEPT !.root = left_child,
                                      !.nodes[left_child].parent = Nil]
            IN  IF v # Nil /\ upgrade(t3, v) = Nil THEN Panic(t3)
                ELSE adjust_height(
                         adjust_height(link_right_node(up, left_child, node), node),
                         left_child)
        hang(t2, right_node) ==
            relink(IF right_node # Nil THEN link_left_node(t2, node, right_node) ELSE t2)
        taken(t1) ==
            IF left_child = Nil THEN t1
            ELSE hang(remove_right(t1, left_child), t1.nodes[left_child].right)
    IN  IF t.panic THEN t
        ELSE rotated(t, taken(remove_left(t, node)), node, left_child)

\* no zigzag is ever detected
never_double_rot(t, node) == FALSE

\* a heavy-side child in balance is taken for a zigzag too
need_double_rot_also_zero(t, node) ==
    LET n_balance == get_balance_factor(t, node)
        c_left  == IF t.nodes[node].left # Nil
                   THEN get_balance_factor(t, t.nodes[node].left) ELSE 0
        c_right == IF t.nodes[node].right # Nil
                   THEN get_balance_factor(t, t.nodes[node].right) ELSE 0
    IN  \/ n_balance = 2 /\ c_left <= 0
        \/ n_balance = 0 - 2 /\ c_right >= 0

need_double_rot(t, node) ==
    LET n_balance == get_balance_factor(t, node)
        c_left  == IF t.nodes[node].left # Nil
                   THEN get_balance_factor(t, t.nodes[node].left) ELSE 0
        c_right == IF t.nodes[node].right # Nil
                   THEN get_balance_factor(t, t.nodes[node].right) ELSE 0
    IN  \/ n_balance = 2 /\ c_left = 0 - 1
        \/ n_balance = 0 - 2 /\ c_right = 1

\* the record of one level of the walk: the balance factor computed for node,
\* its child on the heavy side and that child's balance factor, the node that
\* stands at this level when rebalance_node returns, and the stored heights
\* and balance factors of that node and its two children
noted(before, after, node) ==
    LET balance == get_balance_factor(before, node)
        heavy   == IF balance > 0 THEN before.nodes[node].left
                   ELSE IF balance < 0 THEN before.nodes[node].right ELSE Nil
        top     == IF after.nodes[node].parent = before.nodes[node].parent
                   THEN node ELSE after.nodes[node].parent
        three   == {top, after.nodes[top].left, after.nodes[top].right} \ {Nil}
    IN  [after EXCEPT !.levels = Append(@,
            [node |-> node, balance |-> balance, heavy |-> heavy,
             child |-> IF heavy = Nil THEN 0 ELSE get_balance_factor(before, heavy),
             top |-> top,
             balances |-> {left_height(after, m) - right_height(after, m) : m \in three},
             stale |-> {m \in three : after.nodes[m].height #
                          Max(left_height(after, m), right_height(after, m))}])]

\* a node too heavy on its right is left as it is
rebalance_node_no_left_rotation(t, node) ==
    LET rotate(t1) ==
            IF get_balance_factor(t1, node) = 2
            THEN rotate_right(IF need_double_rot(t1, node)
                              THEN rotate_left(t1, t1.nodes[node].left)
                              ELSE t1, node)
            ELSE t1
        level(t1) == IF t1.panic THEN t1 ELSE noted(t1, rotate(t1), node)
    IN  level(Node_adjust_height(t, node))

\* a node too heavy on its left is left as it is
rebalance_node_no_right_rotation(t, node) ==
    LET rotate(t1) ==
            IF get_balance_factor(t1, node) = 0 - 2
            THEN rotate_left(IF need_double_rot(t1, node)
                             THEN rotate_right(t1, t1.nodes[node].right)
                             ELSE t1, node)
            ELSE t1
        level(t1) == IF t1.panic THEN t1 ELSE noted(t1, rotate(t1), node)
    IN  level(Node_adjust_height(t, node))

rebalance_node(t, node) ==
    LET rotate(t1) ==
            LET balance == get_balance_factor(t1, node)
            IN  IF balance = 2
                THEN rotate_right(IF need_double_rot(t1, node)
                                  THEN rotate_left(t1, t1.nodes[node].left)
                                  ELSE t1, node)
                ELSE IF balance = 0 - 2
                THEN rotate_left(IF need_double_rot(t1, node)
                                 THEN rotate_right(t1, t1.nodes[node].right)
                                 ELSE t1, node)
                ELSE t1
        level(t1) == IF t1.panic THEN t1 ELSE noted(t1, rotate(t1), node)
    IN  level(Node_adjust_height(t, node))

RECURSIVE rebalance(_, _)
rebalance(t, now) ==
    LET v   == t.nodes[now].parent
        nxt == IF v # Nil THEN upgrade(t, v) ELSE Nil
        walk(t1) == IF t1.panic \/ nxt = Nil THEN t1 ELSE rebalance(t1, nxt)
    IN  IF t.panic THEN t
        ELSE IF v # Nil /\ nxt = Nil THEN Panic(t)
        ELSE walk(rebalance_node(adjust_height(t, now), now))

\* ------------------------------------------------------------------ insert
\* the descent of insert: the node found, or the slot to fill and the two flags
RECURSIVE insert_descend(_, _, _, _, _, _, _)
insert_descend(t, value, node, parent, side, is_max, is_min) ==
    IF node = Nil
    THEN [found |-> FALSE, parent |-> parent, side |-> side,
          is_max |-> is_max, is_min |-> is_min]
    ELSE IF value = t.nodes[node].data
    THEN [found |-> TRUE, parent |-> node, side |-> side,
          is_max |-> is_max, is_min |-> is_min]
    ELSE IF value < t.nodes[node].data
    THEN insert_descend(t, value, t.nodes[node].left, node, "left", FALSE, is_min)
    ELSE insert_descend(t, value, t.nodes[node].right, node, "right", is_max, FALSE)

\* Rc::new: a handle no live node has
new_handle(t) == CHOOSE i \in Ids \ DOMAIN t.nodes : \A j \in Ids \ DOMAIN t.nodes : i <= j

\* the cached extrema set from the descent flags for a value found, too
insert_dup_sets_extrema(t, value) ==
    LET new_node == new_handle(t)
        place(d) ==
            IF d.found
            THEN [t EXCEPT !.nodes[d.parent].counter = @ + 1, !.size = @ + 1,
                           !.max_node = IF d.is_max THEN d.parent ELSE @,
                           !.min_node = IF d.is_min THEN d.parent ELSE @]
            ELSE IF d.parent # Nil
            THEN rebalance(
                     link_node(d.side,
                         [t EXCEPT !.size = @ + 1,
                                   !.nodes = @ @@ (new_node :> Node_new(value, Nil)),
                                   !.max_node = IF d.is_max THEN new_node ELSE @,
                                   !.min_node = IF d.is_min THEN new_node ELSE @],
                         d.parent, new_node),
                     d.parent)
            ELSE [t EXCEPT !.size = @ + 1,
                           !.nodes = @ @@ (new_node :> Node_new(value, Nil)),
                           !.max_node = IF d.is_max THEN new_node ELSE @,
                           !.min_node = IF d.is_min THEN new_node ELSE @,
                           !.root = new_node]
    IN  place(insert_descend(t, value, t.root, Nil, "left", TRUE, TRUE))

insert(t, value) ==
    LET new_node == new_handle(t)
        place(d) ==
            IF d.found
            THEN [t EXCEPT !.nodes[d.parent].counter = @ + 1, !.size = @ + 1]
            ELSE IF d.parent # Nil
            THEN rebalance(
                     link_node(d.side,
                         [t EXCEPT !.size = @ + 1,
                                   !.nodes = @ @@ (new_node :> Node_new(value, Nil)),
                                   !.max_node = IF d.is_max THEN new_node ELSE @,
                                   !.min_node = IF d.is_min THEN new_node ELSE @],
                         d.parent, new_node),
                     d.parent)
            ELSE [t EXCEPT !.size = @ + 1,
                           !.nodes = @ @@ (new_node :> Node_new(value, Nil)),
                           !.max_node = IF d.is_max THEN new_node ELSE @,
                           !.min_node = IF d.is_min THEN new_node ELSE @,
                           !.root = new_node]
    IN  place(insert_descend(t, value, t.root, Nil, "left", TRUE, TRUE))

\* ------------------------------------------------------------------- erase
\* "left" or "right"; "root" for a node with no parent link; "panic" when the
\* parent is gone or the debug assertion on the right slot fails
get_node_position(t, node) ==
    LET p == t.nodes[node].parent
    IN  IF p = Nil THEN "root"
        ELSE IF upgrade(t, p) = Nil THEN "panic"
        ELSE IF t.nodes[p].left # Nil /\ t.nodes[p].left = node THEN "left"
        ELSE IF t.nodes[p].right # Nil /\ t.nodes[p].right = node THEN "right"
        ELSE "panic"

\* the decrement of size forgotten
size_kept(t) == t

\* self.size -= 1 on a usize
size_dec(t) ==
    IF t.panic THEN t ELSE IF t.size = 0 THEN Panic(t) ELSE [t EXCEPT !.size = @ - 1]

erase_node_no_child(t, target) ==
    LET p == t.nodes[target].parent
        side == get_node_position(t, target)
    IN  IF count_children(t, target) # 0 THEN Panic(t)
        ELSE IF p = Nil THEN size_dec([t EXCEPT !.root = Nil])
        ELSE IF side = "panic" THEN Panic(t)
        ELSE size_dec(rebalance(remove_node(side, t, p), p))

\* the child promoted to root keeps the parent link to the erased node
erase_node_one_child_keeps_parent(t, target) ==
    LET has_left == t.nodes[target].left # Nil
        child == IF has_left THEN t.nodes[target].left ELSE t.nodes[target].right
        splice(t1) ==
            LET p == t1.nodes[target].parent
                side == get_node_position(t1, target)
            IN  IF p = Nil
                THEN size_dec([t1 EXCEPT !.root = child])
                ELSE IF side = "panic" THEN Panic(t1)
                ELSE size_dec(rebalance(link_node(side, t1, p, child), p))
    IN  IF count_children(t, target) # 1 THEN Panic(t)
        ELSE splice(remove_node(IF has_left THEN "left" ELSE "right", t, target))

erase_node_one_child(t, target) ==
    LET has_left == t.nodes[target].left # Nil
        child == IF has_left THEN t.nodes[target].left ELSE t.nodes[target].right
        \* t1: the child is taken out of target
        splice(t1) ==
            LET p == t1.nodes[target].parent
                side == get_node_position(t1, target)
            IN  IF p = Nil
                THEN size_dec([t1 EXCEPT !.nodes[child].parent = Nil, !.root = child])
                ELSE IF side = "panic" THEN Panic(t1)
                ELSE size_dec(rebalance(link_node(side, t1, p, child), p))
    IN  IF count_children(t, target) # 1 THEN Panic(t)
        ELSE splice(remove_node(IF has_left THEN "left" ELSE "right", t, target))

RECURSIVE erase_node(_, _)

\* the left child taken for the predecessor, without the walk to the right
erase_node_two_children_left(t, node) ==
    LET pred == t.nodes[node].left
    IN  IF count_children(t, node) # 2 THEN Panic(t)
        ELSE erase_node([t EXCEPT !.nodes[node].data = t.nodes[pred].data,
                                  !.nodes[pred].data = t.nodes[node].data,
                                  !.nodes[node].counter = t.nodes[pred].counter,
                                  !.nodes[pred].counter = t.nodes[node].counter],
                        pred)

\* the values are swapped and the counters are not
erase_node_two_children_data_only(t, node) ==
    LET pred == walk_right(t, t.nodes[node].left)
    IN  IF count_children(t, node) # 2 THEN Panic(t)
        ELSE erase_node([t EXCEPT !.nodes[node].data = t.nodes[pred].data,
                                  !.nodes[pred].data = t.nodes[node].data],
                        pred)

erase_node_two_children(t, node) ==
    LET pred == walk_right(t, t.nodes[node].left)
    IN  IF count_children(t, node) # 2 THEN Panic(t)
        ELSE erase_node([t EXCEPT !.nodes[node].data = t.nodes[pred].data,
                                  !.nodes[pred].data = t.nodes[node].data,
                                  !.nodes[node].counter = t.nodes[pred].counter,
                                  !.nodes[pred].counter = t.nodes[node].counter],
                        pred)

\* the cached minimum never recomputed
erase_node_stale_min(t, node) ==
    LET recalc_max == is_max_node(t, node)
        num_child == count_children(t, node)
        remax(t3) == IF recalc_max THEN [t3 EXCEPT !.max_node = find_max_node(t3)] ELSE t3
        recalc(t2) == IF t2.panic THEN t2 ELSE remax(t2)
        removed(t1) ==
            IF t1.nodes[node].counter > 0 THEN size_dec(t1)
            ELSE IF num_child = 0 THEN recalc(erase_node_no_child(t1, node))
            ELSE IF num_child = 1 THEN recalc(erase_node_one_child(t1, node))
            ELSE recalc(erase_node_two_children(
                            [t1 EXCEPT !.nodes[node].counter = @ + 1], node))
    IN  IF t.panic THEN t
        ELSE IF t.nodes[node].counter = 0 THEN Panic(t)
        ELSE removed([t EXCEPT !.nodes[node].counter = @ - 1])

\* the node taken out at the first erase, whatever its counter
erase_node_ignores_counter(t, node) ==
    LET recalc_max == is_max_node(t, node)
        recalc_min == is_min_node(t, node)
        num_child == count_children(t, node)
        remax(t3) == IF recalc_max THEN [t3 EXCEPT !.max_node = find_max_node(t3)] ELSE t3
        remin(t3) == IF recalc_min THEN [t3 EXCEPT !.min_node = find_min_node(t3)] ELSE t3
        recalc(t2) == IF t2.panic THEN t2 ELSE remin(remax(t2))
        removed(t1) ==
            IF num_child = 0 THEN recalc(erase_node_no_child(t1, node))
            ELSE IF num_child = 1 THEN recalc(erase_node_one_child(t1, node))
            ELSE recalc(erase_node_two_children(
                            [t1 EXCEPT !.nodes[node].counter = @ + 1], node))
    IN  IF t.panic THEN t
        ELSE IF t.nodes[node].counter = 0 THEN Panic(t)
        ELSE removed([t EXCEPT !.nodes[node].counter = @ - 1])

\* size lowered twice when the node stays
erase_node_size_twice(t, node) ==
    LET recalc_max == is_max_node(t, node)
        recalc_min == is_min_node(t, node)
        num_child == count_children(t, node)
        remax(t3) == IF recalc_max THEN [t3 EXCEPT !.max_node = find_max_node(t3)] ELSE t3
        remin(t3) == IF recalc_min THEN [t3 EXCEPT !.min_node = find_min_node(t3)] ELSE t3
        \* t2: the node is out of the tree
        recalc(t2) == IF t2.panic THEN t2 ELSE remin(remax(t2))
        \* t1: the counter is decremented
        removed(t1) ==
            IF t1.nodes[node].counter > 0 THEN size_dec(size_dec(t1))
            ELSE IF num_child = 0 THEN recalc(erase_node_no_child(t1, node))
            ELSE IF num_child = 1 THEN recalc(erase_node_one_child(t1, node))
            ELSE recalc(erase_node_two_children(
                            [t1 EXCEPT !.nodes[node].counter = @ + 1], node))
    IN  IF t.panic THEN t
        ELSE IF t.nodes[node].counter = 0 THEN Panic(t)
        ELSE removed([t EXCEPT !.nodes[node].counter = @ - 1])

\* the counter not put back to 1 before the swap with the predecessor
erase_node_no_restore(t, node) ==
    LET recalc_max == is_max_node(t, node)
        recalc_min == is_min_node(t, node)
        num_child == count_children(t, node)
        remax(t3) == IF recalc_max THEN [t3 EXCEPT !.max_node = find_max_node(t3)] ELSE t3
        remin(t3) == IF recalc_min THEN [t3 EXCEPT !.min_node = find_min_node(t3)] ELSE t3
        \* t2: the node is out of the tree
        recalc(t2) == IF t2.panic THEN t2 ELSE remin(remax(t2))
        \* t1: the counter is decremented
        removed(t1) ==
            IF t1.nodes[node].counter > 0 THEN size_dec(t1)
            ELSE IF num_child = 0 THEN recalc(erase_node_no_child(t1, node))
            ELSE IF num_child = 1 THEN recalc(erase_node_one_child(t1, node))
            ELSE recalc(erase_node_two_children(t1, node))
    IN  IF t.panic THEN t
        ELSE IF t.nodes[node].counter = 0 THEN Panic(t)
        ELSE removed([t EXCEPT !.nodes[node].counter = @ - 1])

erase_node(t, node) ==
    LET recalc_max == is_max_node(t, node)
        recalc_min == is_min_node(t, node)
        num_child == count_children(t, node)
        remax(t3) == IF recalc_max THEN [t3 EXCEPT !.max_node = find_max_node(t3)] ELSE t3
        remin(t3) == IF recalc_min THEN [t3 EXCEPT !.min_node = find_min_node(t3)] ELSE t3
        \* t2: the node is out of the tree
        recalc(t2) == IF t2.panic THEN t2 ELSE remin(remax(t2))
        \* t1: the counter is decremented
        removed(t1) ==
            IF t1.nodes[node].counter > 0 THEN size_dec(t1)
            ELSE IF num_child = 0 THEN recalc(erase_node_no_child(t1, node))
            ELSE IF num_child = 1 THEN recalc(erase_node_one_child(t1, node))
            ELSE recalc(erase_node_two_children(
                            [t1 EXCEPT !.nodes[node].counter = @ + 1], node))
    IN  IF t.panic THEN t
        ELSE IF t.nodes[node].counter = 0 THEN Panic(t)
        ELSE removed([t EXCEPT !.nodes[node].counter = @ - 1])

\* a miss still counted as an erase
erase_counts_miss(t, value) ==
    LET found(node) == IF node = Nil THEN size_dec(t) ELSE erase_node(t, node)
    IN  found(find_node(t, value))

erase(t, value) ==
    LET found(node) == IF node = Nil THEN t ELSE erase_node(t, node)
    IN  found(find_node(t, value))

\* ---------------------------------------------------------------- iterator
node_to_iter(node) == [now |-> node, counter |-> 1]

\* the cursor placed on the root
max_iter_from_root(t) == IF t.root # Nil THEN <<node_to_iter(t.root)>> ELSE <<>>

\* Option<MultiAVLTreeIter>: <<>> is None and <<i>> is Some(i)
max_iter(t) == IF t.max_node # Nil THEN <<node_to_iter(t.max_node)>> ELSE <<>>

min_iter(t) == IF t.min_node # Nil THEN <<node_to_iter(t.min_node)>> ELSE <<>>

\* min_iter() is None on an empty tree; iter() then gives the exhausted cursor
iter(t) ==
    IF t.min_node # Nil THEN node_to_iter(t.min_node) ELSE [now |-> Nil, counter |-> 0]

\* the walk towards the root of next(): the first ancestor entered from its left
\* child; gone is TRUE where a parent link no longer upgrades (next() returns None)
RECURSIVE climb(_, _)
climb(t, now) ==
    LET p == t.nodes[now].parent
    IN  IF p = Nil THEN [now |-> Nil, gone |-> FALSE]
        ELSE IF upgrade(t, p) = Nil THEN [now |-> Nil, gone |-> TRUE]
        ELSE IF t.nodes[p].left # Nil /\ t.nodes[p].left = now
        THEN [now |-> p, gone |-> FALSE]
        ELSE climb(t, p)

\* the successor taken to be the right child itself, without the walk to the left
next_no_descent(t, i) ==
    LET node == i.now
        climbed(up) == [it |-> [now |-> up.now, counter |-> 1],
                        ret |-> IF up.gone THEN Nil ELSE t.nodes[node].data]
    IN  IF node = Nil THEN [it |-> i, ret |-> Nil]
        ELSE IF upgrade(t, node) = Nil THEN [it |-> i, ret |-> Nil]
        ELSE IF i.counter + 1 <= t.nodes[node].counter
        THEN [it |-> [i EXCEPT !.counter = @ + 1], ret |-> t.nodes[node].data]
        ELSE IF t.nodes[node].right # Nil
        THEN [it |-> [now |-> t.nodes[node].right, counter |-> 1],
              ret |-> t.nodes[node].data]
        ELSE climbed(climb(t, node))

\* a repeat count above the node's counter ends the traversal
next_counter_strict(t, i) ==
    LET node == i.now
        climbed(up) == [it |-> [now |-> up.now, counter |-> 1],
                        ret |-> IF up.gone THEN Nil ELSE t.nodes[node].data]
    IN  IF node = Nil THEN [it |-> i, ret |-> Nil]
        ELSE IF upgrade(t, node) = Nil THEN [it |-> i, ret |-> Nil]
        ELSE IF i.counter + 1 <= t.nodes[node].counter
        THEN [it |-> [i EXCEPT !.counter = @ + 1], ret |-> t.nodes[node].data]
        ELSE IF i.counter > t.nodes[node].counter
        THEN [it |-> [now |-> Nil, counter |-> 1], ret |-> Nil]
        ELSE IF t.nodes[node].right # Nil
        THEN [it |-> [now |-> walk_left(t, t.nodes[node].right), counter |-> 1],
              ret |-> t.nodes[node].data]
        ELSE climbed(climb(t, node))

\* MultiAVLTreeIter::next: the cursor afterwards and the value returned (Nil: None)
next(t, i) ==
    LET node == i.now
        climbed(up) == [it |-> [now |-> up.now, counter |-> 1],
                        ret |-> IF up.gone THEN Nil ELSE t.nodes[node].data]
    IN  IF node = Nil THEN [it |-> i, ret |-> Nil]
        ELSE IF upgrade(t, node) = Nil THEN [it |-> i, ret |-> Nil]
        ELSE IF i.counter + 1 <= t.nodes[node].counter
        THEN [it |-> [i EXCEPT !.counter = @ + 1], ret |-> t.nodes[node].data]
        ELSE IF t.nodes[node].right # Nil
        THEN [it |-> [now |-> walk_left(t, t.nodes[node].right), counter |-> 1],
              ret |-> t.nodes[node].data]
        ELSE climbed(climb(t, node))

\* a cursor whose node is gone still counts as one occurrence
erase_iter_counts_gone(t, i) ==
    IF i.now = Nil THEN t
    ELSE IF upgrade(t, i.now) = Nil THEN size_dec(t)
    ELSE erase_node(t, i.now)

\* only a cursor on the first repeat of its node erases
erase_iter_first_repeat(t, i) ==
    IF i.now = Nil THEN t
    ELSE IF upgrade(t, i.now) = Nil THEN t
    ELSE IF i.counter # 1 THEN t
    ELSE erase_node(t, i.now)

erase_iter(t, i) ==
    IF i.now = Nil THEN t
    ELSE IF upgrade(t, i.now) = Nil THEN t
    ELSE erase_node(t, i.now)

\* ------------------------------------------------------ reference counting
RECURSIVE inorder(_, _)
inorder(t, n) ==
    IF n = Nil THEN <<>>
    ELSE inorder(t, t.nodes[n].left) \o <<n>> \o inorder(t, t.nodes[n].right)

Range(s) == {s[i] : i \in DOMAIN s}

RECURSIVE ascending(_)
ascending(S) ==
    IF S = {} THEN <<>>
    ELSE LET m == CHOOSE x \in S : \A y \in S : x <= y
         IN  <<m>> \o ascending(S \ {m})

\* The nodes some chain of strong references (root, min_node, max_node, child
\* slots) still reaches, those of the tree first and in in-order.
strong(t) ==
    LET rest(in_tree) ==
            in_tree \o ascending((Range(inorder(t, t.min_node))
                                  \cup Range(inorder(t, t.max_node))) \ Range(in_tree))
    IN  rest(inorder(t, t.root))

\* A reference once the nodes outside `keep` are dropped.  The code compares
\* handles only for identity (Rc::ptr_eq), so a heap is the same heap under any
\* renaming of them: a surviving node is named by its place in `keep`, and a weak
\* reference to a dropped node can never be upgraded again.
\* a reference to a dropped node keeps its handle, which a later node may get
renamed_reused(keep, h) ==
    IF h = Nil THEN Nil
    ELSE IF h \in Range(keep) THEN CHOOSE i \in DOMAIN keep : keep[i] = h
    ELSE h

renamed(keep, h) ==
    IF h = Nil THEN Nil
    ELSE IF h \in Range(keep) THEN CHOOSE i \in DOMAIN keep : keep[i] = h
    ELSE Dangling

\* The heap when a public operation returns and its local Rc's are gone: the nodes
\* outside `keep` are dropped.
drop(t, keep) ==
    [t EXCEPT !.nodes = [i \in DOMAIN keep |->
                           [t.nodes[keep[i]] EXCEPT !.left = renamed(keep, @),
                                                    !.right = renamed(keep, @),
                                                    !.parent = renamed(keep, @)]],
              !.root = renamed(keep, @),
              !.min_node = renamed(keep, @),
              !.max_node = renamed(keep, @)]

\* ----------------------------------------------------------------- actions
RECURSIVE SumOver(_, _)
SumOver(f, S) ==
    IF S = {} THEN 0
    ELSE LET x == CHOOSE y \in S : TRUE IN f[x] + SumOver(f, S \ {x})

\* the number of occurrences the multiset of the calls made holds
BagSize == SumOver(bag, Values)

no_iter == [now |-> Nil, counter |-> 0]

\* what is known of the cursor the caller holds: whether there is one, which call
\* made it, whether the tree is as it was when the cursor was made, the values
\* next() gave since then while that was so, and how often next() gave None
\* (counted up to two), and the largest value next() gave so far (Nil: none yet)
no_trav == [active |-> FALSE, from |-> "none", clean |-> FALSE, yielded |-> <<>>,
            nones |-> 0, top |-> Nil]

fresh_trav(from) == [active |-> TRUE, from |-> from, clean |-> TRUE, yielded |-> <<>>,
                     nones |-> 0, top |-> Nil]

Init ==
    /\ nodes = MultiAVL_new.nodes
    /\ root = MultiAVL_new.root
    /\ size = MultiAVL_new.size
    /\ min_node = MultiAVL_new.min_node
    /\ max_node = MultiAVL_new.max_node
    /\ panic = MultiAVL_new.panic
    /\ it = no_iter
    /\ bag = [v \in Values |-> 0]
    /\ last = [op |-> "new", arg |-> Nil, how |-> "new", root_was |-> Nil]
    /\ trav = no_trav

\* a mutating call returns the tree t, and i is the cursor the caller then holds
Returns(t, i) ==
    LET set(d, keep) ==
            /\ nodes' = d.nodes
            /\ root' = d.root
            /\ size' = d.size
            /\ min_node' = d.min_node
            /\ max_node' = d.max_node
            /\ panic' = d.panic
            /\ it' = [i EXCEPT !.now = renamed(keep, @)]
        dropped(keep) == set(drop(t, keep), keep)
    IN  dropped(strong(t))

Mutated == trav' = [trav EXCEPT !.clean = FALSE, !.yielded = <<>>]

\* the value the root holds (Nil in an empty tree)
root_value == IF root = Nil THEN Nil ELSE nodes[root].data

\* what erase_node is about to do with `node`: lower its counter only ("count"), or
\* take a node with no child ("leaf"), one child ("one") or two children ("two") out
erase_case(node) ==
    IF node = Nil THEN "absent"
    ELSE IF nodes[node].counter > 1 THEN "count"
    ELSE IF count_children(T, node) = 0 THEN "leaf"
    ELSE IF count_children(T, node) = 1 THEN "one"
    ELSE "two"

\* insert(v), while the multiset holds fewer than `cap` occurrences
Insert(v, cap) ==
    /\ ~panic
    /\ BagSize < cap
    /\ contains(T, v) \/ Ids \ DOMAIN nodes # {}
    /\ Returns(insert(T, v), it)
    /\ bag' = [bag EXCEPT ![v] = @ + 1]
    /\ last' = [op |-> "insert", arg |-> v,
                how |-> IF contains(T, v) THEN "count" ELSE "leaf", root_was |-> root_value]
    /\ Mutated

Erase(v) ==
    /\ ~panic
    /\ Returns(erase(T, v), it)
    /\ bag' = [bag EXCEPT ![v] = IF @ > 0 THEN @ - 1 ELSE 0]
    /\ last' = [op |-> "erase", arg |-> v,
                how |-> erase_case(find_node(T, v)), root_was |-> root_value]
    /\ Mutated

\* erase_iter(i) is called; the caller then holds the cursor `kept`
EraseAt(i, kept) ==
    LET node == upgrade(T, i.now)
        v == IF node # Nil THEN nodes[node].data ELSE Nil
    IN  /\ Returns(erase_iter(T, i), kept)
        /\ bag' = [w \in Values |-> IF w = v /\ bag[w] > 0 THEN bag[w] - 1 ELSE bag[w]]
        /\ last' = [op |-> "erase_iter", arg |-> v,
                    how |-> IF i.now = Dangling THEN "dangling" ELSE erase_case(node),
                    root_was |-> root_value]

\* erase_iter takes the cursor by value: the caller's cursor is gone afterwards
EraseIter ==
    /\ ~panic
    /\ trav.active
    /\ EraseAt(it, no_iter)
    /\ trav' = no_trav

\* the cursor after k calls of next()
RECURSIVE advanced(_, _, _)
advanced(t, i, k) == IF k = 0 THEN i ELSE advanced(t, next(t, i).it, k - 1)

\* let mut i = tree.iter(); k times i.next(); tree.erase_iter(i)
EraseAfter(k) ==
    /\ ~panic
    /\ EraseAt(advanced(T, iter(T), k), it)
    /\ Mutated

Iter ==
    /\ ~panic
    /\ it' = iter(T)
    /\ trav' = fresh_trav("iter")
    /\ last' = [op |-> "iter", arg |-> Nil, how |-> "iter", root_was |-> root_value]
    /\ UNCHANGED <<nodes, root, size, min_node, max_node, panic, bag>>

\* next() on the cursor the caller holds; with `track` the caller also keeps the
\* largest value the cursor has given
Advance(track) ==
    LET returned(r) ==
            /\ it' = r.it
            /\ last' = [op |-> "next", arg |-> r.ret,
                        how |-> IF r.ret # Nil THEN "some" ELSE "none",
                        root_was |-> root_value]
            /\ trav' = [trav EXCEPT !.yielded =
                           IF trav.clean /\ r.ret # Nil THEN Append(@, r.ret) ELSE @,
                                    !.nones =
                           IF r.ret = Nil /\ @ < 2 THEN @ + 1 ELSE @,
                                    !.top = IF track THEN Max(@, r.ret) ELSE @]
    IN  /\ ~panic
        /\ trav.active
        /\ returned(next(T, it))
        /\ UNCHANGED <<nodes, root, size, min_node, max_node, panic, bag>>

IterNext == Advance(FALSE)

IterNextTop == Advance(TRUE)

\* the tree alone: insert, erase and erase_iter at any position of a traversal
Next ==
    \/ \E v \in Values : Insert(v, MaxSize)
    \/ \E v \in Values : Erase(v)
    \/ \E k \in 0..size : EraseAfter(k)

Spec == Init /\ [][Next]_vars

\* the tree and one cursor the caller keeps across calls
IterValues == 1..IterMaxVal

NextIter ==
    \/ \E v \in IterValues : Insert(v, IterMaxSize)
    \/ \E v \in IterValues : Erase(v)
    \/ EraseIter
    \/ Iter
    \/ IterNext

SpecIter == Init /\ [][NextIter]_vars

\* the tree and one cursor, with the largest value the cursor has given
NextOrder ==
    \/ \E v \in IterValues : Insert(v, IterMaxSize)
    \/ \E v \in IterValues : Erase(v)
    \/ EraseIter
    \/ Iter
    \/ IterNextTop

SpecOrder == Init /\ [][NextOrder]_vars

\* max_iter() / min_iter(): Some(cursor), which the caller then holds, or None,
\* which leaves the caller without a cursor
EndIter(from, opt) ==
    /\ ~panic
    /\ it' = IF opt # <<>> THEN opt[1] ELSE no_iter
    /\ trav' = IF opt # <<>> THEN fresh_trav(from) ELSE no_trav
    /\ last' = [op |-> from, arg |-> Nil, how |-> IF opt # <<>> THEN "some" ELSE "none",
                root_was |-> root_value]
    /\ UNCHANGED <<nodes, root, size, min_node, max_node, panic, bag>>

MaxIter == EndIter("max_iter", max_iter(T))

MinIter == EndIter("min_iter", min_iter(T))

\* the caller's cursor goes out of scope
DropIter ==
    /\ ~panic
    /\ trav.active
    /\ it' = no_iter
    /\ trav' = no_trav
    /\ last' = [op |-> "drop", arg |-> Nil, how |-> "drop", root_was |-> root_value]
    /\ UNCHANGED <<nodes, root, size, min_node, max_node, panic, bag>>

\* the tree, and a cursor made by max_iter() or min_iter() that is used and
\* dropped while the tree stays as it is
NextEnds ==
    \/ \E v \in IterValues : ~trav.active /\ Insert(v, IterMaxSize)
    \/ \E v \in IterValues : ~trav.active /\ Erase(v)
    \/ MaxIter
    \/ MinIter
    \/ IterNext
    \/ DropIter

SpecEnds == Init /\ [][NextEnds]_vars

\* ------------------------------------------------- what the claims speak of
\* the nodes of the tree, by the child links from the root, in in-order
InOrder == inorder(T, root)

InTree == Range(InOrder)

\* the nodes below a child slot
Below(c) == Range(inorder(T, c))

\* what a child slot adds to the height of its owner, by the stored heights
SlotHeight(c) == IF c = Nil THEN 0 ELSE nodes[c].height + 1

\* the values the multiset holds
Stored == {v \in Values : bag[v] > 0}

IsPrefix(p, q) == Len(p) <= Len(q) /\ \A i \in 1..Len(p) : p[i] = q[i]

\* every node's value as often as its counter says, along the in-order
RECURSIVE Repeated(_)
Repeated(ns) ==
    IF ns = <<>> THEN <<>>
    ELSE [i \in 1..nodes[Head(ns)].counter |-> nodes[Head(ns)].data] \o Repeated(Tail(ns))

\* the tree a call leaves behind once it has returned
Settled(t) == [drop(t, strong(t)) EXCEPT !.levels = <<>>, !.rots = <<>>]

\* the node erase(v) takes out of the tree: the node holding v if it has at most
\* one child, its in-order predecessor if it has two; Nil if no node goes
Victim(v) ==
    LET node == find_node(T, v)
        case == erase_case(node)
    IN  IF case \in {"leaf", "one"} THEN node
        ELSE IF case = "two" THEN walk_right(T, nodes[node].left)
        ELSE Nil

\* the tree as the call of this step hands it back, before its local references
\* are dropped, with the record of its rebalance walk (erase_iter on a live
\* node holding v runs erase_node on the node erase(v) finds)
Call ==
    IF last'.op = "insert" THEN insert(T, last'.arg)
    ELSE IF last'.op \in {"erase", "erase_iter"} /\ last'.arg # Nil
    THEN erase(T, last'.arg)
    ELSE T

\* the occurrences of w the tree t holds, by the counters of its nodes
Mult(t, w) ==
    LET S == {n \in Range(inorder(t, t.root)) : t.nodes[n].data = w}
    IN  SumOver([n \in S |-> t.nodes[n].counter], S)

\* the least number of nodes of an AVL tree whose root has height h
RECURSIVE MinNodes(_)
MinNodes(h) ==
    IF h = 0 THEN 1 ELSE IF h = 1 THEN 2 ELSE MinNodes(h - 1) + MinNodes(h - 2) + 1

\* erase(v) of this step finds v, held once, at a node with two children
TwoChildErase == last'.op = "erase" /\ erase_case(find_node(T, last'.arg)) = "two"

\* what the two-child erase of the node x, with in-order predecessor p, has made
\* of values, counters and nodes in the tree c it hands back: x holds what p
\* held, p is out of the tree and dropped, one occurrence of the erased value is
\* gone and no other
Swapped(x, p, c) ==
    /\ x \in Range(inorder(c, c.root))
    /\ c.nodes[x].data = nodes[p].data
    /\ c.nodes[x].counter = nodes[p].counter
    /\ p \notin Range(strong(c))
    /\ Range(strong(c)) = DOMAIN nodes \ {p}
    /\ c.size = size - 1
    /\ \A w \in Values : Mult(c, w) = IF w = nodes[x].data THEN 0 ELSE Mult(T, w)
    /\ T' = Settled(c)

\* x has the parent and the right subtree in c that it has now
InPlace(x, c) ==
    /\ c.nodes[x].parent = nodes[x].parent
    /\ c.nodes[x].right = nodes[x].right
    /\ \A m \in Below(nodes[x].right) :
          /\ c.nodes[m].left = nodes[m].left
          /\ c.nodes[m].right = nodes[m].right
          /\ c.nodes[m].parent = nodes[m].parent

\* the rebalance walk of the call that gave c found x out of balance and rotated
RotatedAt(x, c) ==
    \E i \in DOMAIN c.levels :
        c.levels[i].node = x /\ c.levels[i].balance \in {2, 0 - 2}

\* insert 2, 1, 3 and then erase(2)
EraseOfThree(c) ==
    (size = 3 /\ root_value = 2 /\ last'.arg = 2 /\ bag[1] = 1 /\ bag[3] = 1) =>
        /\ c.size = 2
        /\ c.nodes[c.root].data = 1
        /\ c.nodes[c.root].left = Nil
        /\ c.nodes[c.root].right # Nil
        /\ c.nodes[c.nodes[c.root].right].data = 3
        /\ ~contains(c, 2)

\* the (value, counter) pairs of the heap h = [nodes, root] along its in-order
Pairs(h) ==
    LET seq == inorder(h, h.root)
    IN  [i \in DOMAIN seq |-> <<h.nodes[seq[i]].data, h.nodes[seq[i]].counter>>]

\* what the rotation recorded in e did with the links: `down` is the side the
\* pivot goes down to ("left" for rotate_left) and `up` the side its promoted
\* child came from
Relinked(e, down, up) ==
    LET parent == e.pre.nodes[e.node].parent
        moved  == e.pre.nodes[e.child][down]
    IN  /\ Pairs(e.post) = Pairs(e.pre)
        /\ e.post.nodes[e.child].parent = parent
        /\ IF parent = Nil THEN e.post.root = e.child
           ELSE /\ e.post.root = e.pre.root
                /\ \A side \in {"left", "right"} :
                      e.post.nodes[parent][side] =
                          IF e.pre.nodes[parent][side] = e.node THEN e.child
                          ELSE e.pre.nodes[parent][side]
        /\ e.post.nodes[e.child][down] = e.node
        /\ e.post.nodes[e.child][up] = e.pre.nodes[e.child][up]
        /\ e.post.nodes[e.node].parent = e.child
        /\ e.post.nodes[e.node][up] = moved
        /\ e.post.nodes[e.node][down] = e.pre.nodes[e.node][down]
        /\ moved # Nil => e.post.nodes[moved].parent = e.node

\* ------------------------------------------------------------------ claims

\* C1: the tree refines the multiset of the calls made: contains(v) is true exactly
\* for the values whose multiplicity (inserts less the erases that found the value)
\* is positive, and size() is the number of occurrences held.
C1_RefinesBag ==
    /\ \A v \in Values : contains(T, v) <=> bag[v] > 0
    /\ size = BagSize
    /\ is_empty(T) <=> Stored = {}

C1_Witness ==
    /\ last.op = "erase_iter" /\ last.how = "one"
    /\ \E v \in Values : bag[v] >= 2
    /\ \E v \in Values : bag[v] = 0 /\ v = last.arg
    /\ size >= 4

\* C2: in every state, below the left slot of a node all values are smaller than
\* the node's and below its right slot all are greater, and no two nodes of the
\* tree hold the same value.
C2_BstOrder ==
    /\ \A n \in InTree :
          /\ \A m \in Below(nodes[n].left) : nodes[m].data < nodes[n].data
          /\ \A m \in Below(nodes[n].right) : nodes[m].data > nodes[n].data
    /\ \A n, m \in InTree : nodes[n].data = nodes[m].data => n = m

\* a node with two children was taken out by the swap with its predecessor, and
\* the predecessor was not the left child itself
C2_Witness ==
    /\ last.op = "erase" /\ last.how = "two"
    /\ last.root_was = last.arg
    /\ root_value < last.arg
    /\ nodes[root].left # Nil /\ nodes[root].right # Nil
    /\ nodes[nodes[root].left].data < root_value - 1

\* C3: in every state the balance factor of every node, by the stored heights of
\* its children, is -1, 0 or 1.
C3_Balanced ==
    \A n \in InTree :
        SlotHeight(nodes[n].left) - SlotHeight(nodes[n].right) \in {0 - 1, 0, 1}

\* an insert of a new leaf that a double rotation made the root
C3_Witness ==
    /\ last.op = "insert" /\ last.how = "leaf"
    /\ last.root_was # Nil /\ root_value = last.arg
    /\ nodes[root].left # Nil /\ nodes[root].right # Nil

\* C4: in every state the stored height of every node is the larger of what its
\* two child slots add (0 for a leaf).
C4_Heights ==
    \A n \in InTree :
        nodes[n].height = Max(SlotHeight(nodes[n].left), SlotHeight(nodes[n].right))

\* an erase that took a node out and rotated at the root
C4_Witness ==
    /\ last.op = "erase" /\ last.how \in {"leaf", "one"}
    /\ last.root_was # last.arg /\ last.root_was # root_value
    /\ Cardinality(InTree) >= 4

\* C5: in every state the root has no parent link, and the parent link of every
\* other node of the tree is the node that holds it in exactly one child slot.
C5_Parents ==
    /\ root # Nil => nodes[root].parent = Nil
    /\ \A n \in InTree \ {root} :
          /\ nodes[n].parent \in InTree
          /\ (nodes[nodes[n].parent].left = n) # (nodes[nodes[n].parent].right = n)
    /\ \A n \in InTree : \A c \in {nodes[n].left, nodes[n].right} \ {Nil} :
          nodes[c].parent = n

\* the root itself, having one child, was erased: the child became the root
C5_Witness ==
    /\ last.op \in {"erase", "erase_iter"} /\ last.how = "one"
    /\ last.root_was = last.arg
    /\ root # Nil

\* C6: in every state size is the sum of the counters of the nodes of the tree,
\* every counter is at least 1, size is 0 exactly when there is no root, and once
\* every occurrence has been erased the tree is empty.
C6_Size ==
    /\ size = SumOver([n \in DOMAIN nodes |-> nodes[n].counter], InTree)
    /\ \A n \in InTree : nodes[n].counter >= 1
    /\ (size = 0) <=> (root = Nil)
    /\ is_empty(T) <=> (root = Nil)
    /\ Stored = {} => root = Nil /\ size = 0

\* the last occurrence left the tree
C6_Witness ==
    /\ last.op = "erase" /\ last.how = "leaf"
    /\ last.root_was = last.arg
    /\ root = Nil /\ size = 0

\* C7: in every state min_node is the leftmost and max_node the rightmost node of
\* the tree, min_value() and max_value() are the smallest and the largest value
\* held, and both are None exactly when the tree is empty.
C7_Extrema ==
    /\ min_node = find_min_node(T)
    /\ max_node = find_max_node(T)
    /\ Stored # {} => /\ min_value(T) \in Stored
                      /\ max_value(T) \in Stored
                      /\ \A v \in Stored : min_value(T) <= v /\ v <= max_value(T)
    /\ (min_node = Nil) <=> Stored = {}
    /\ (max_node = Nil) <=> Stored = {}
    /\ (min_value(T) = Nil) <=> is_empty(T)
    /\ (max_value(T) = Nil) <=> is_empty(T)

\* a two-child erase whose predecessor node was the cached minimum: the only value
\* left below the erased one is the minimum
C7_Witness ==
    /\ last.op = "erase" /\ last.how = "two"
    /\ {v \in Stored : v < last.arg} = {min_value(T)}
    /\ Cardinality(Stored) >= 3

\* C8: a cursor from iter(), on a tree not changed since, has yielded a prefix of
\* the in-order sequence of the values, each as often as its counter says; the
\* values of that sequence ascend strictly from node to node, its length is
\* size(), and next() has returned None only after the whole of it was yielded.
C8_FullIteration ==
    trav.active /\ trav.clean =>
        /\ IsPrefix(trav.yielded, Repeated(InOrder))
        /\ Len(Repeated(InOrder)) = size
        /\ \A i, j \in 1..Len(InOrder) :
              i < j => nodes[InOrder[i]].data < nodes[InOrder[j]].data
        /\ \A v \in Values :
              Cardinality({i \in 1..Len(Repeated(InOrder)) : Repeated(InOrder)[i] = v})
                  = bag[v]
        /\ (last.op = "next" /\ last.how = "none") => trav.yielded = Repeated(InOrder)
        /\ (last.op = "next" /\ last.how = "some") =>
              trav.yielded # <<>> /\ trav.yielded[Len(trav.yielded)] = last.arg

\* a traversal of four nodes ran to its end; the successor of the root was the
\* left child of its right child
C8_Witness ==
    /\ trav.active /\ trav.clean
    /\ last.op = "next" /\ last.how = "none"
    /\ Len(trav.yielded) = 4
    /\ Cardinality(InTree) = 4
    /\ nodes[root].right # Nil /\ nodes[nodes[root].right].left # Nil

\* C9: erase(v) of a value the multiset does not hold changes nothing of the tree:
\* size, nodes, links, counters, heights, root, min_node and max_node.
C9_EraseAbsent ==
    [][(last'.op = "erase" /\ bag[last'.arg] = 0) =>
          /\ UNCHANGED <<nodes, root, size, min_node, max_node, panic>>
          /\ \A w \in Values : contains(T', w) <=> contains(T, w)]_vars

C9_Witness ==
    /\ last.op = "erase" /\ last.how = "absent"
    /\ Cardinality(InTree) >= 3
    /\ \E v \in Stored : v < last.arg
    /\ \E v \in Stored : v > last.arg

\* C10: an erase(v) leaves v contained exactly when at least two occurrences of v
\* were held before it (so of k inserted occurrences the k-th erase is the first
\* after which contains(v) is false), and an erase(v) with no occurrence held
\* leaves contains(v) false and size() as it was.
C10_KthErase ==
    [][last'.op = "erase" =>
          /\ contains(T', last'.arg) <=> bag[last'.arg] >= 2
          /\ bag[last'.arg] >= 1 => size' = size - 1
          /\ bag[last'.arg] = 0 => size' = size /\ ~contains(T', last'.arg)]_vars

\* an erase of v that was not the last one: v is still contained
C10_Witness ==
    /\ last.op = "erase" /\ last.how = "count"
    /\ contains(T, last.arg)
    /\ bag[last.arg] = 2

\* C11: when an erase takes the node a cursor stands on out of the tree, the
\* cursor's node is gone whatever the cursor's repeat count, and next() on a
\* cursor whose node is gone returns None, leaves cursor and tree as they were
\* and does not panic.
C11_DanglingNext ==
    [][/\ (last'.op = "erase" /\ it.now # Nil /\ it.now = Victim(last'.arg)) =>
             /\ it' = [it EXCEPT !.now = Dangling]
             /\ next(T', it').ret = Nil
             /\ ~panic'
       /\ (last'.op = "next" /\ it.now = Dangling) =>
             /\ last'.arg = Nil
             /\ it' = it
             /\ UNCHANGED <<nodes, root, size, min_node, max_node, panic>>]_vars

\* next() has just returned None on a cursor whose node is gone, in a tree that
\* still holds values
C11_Witness ==
    /\ last.op = "next" /\ last.how = "none"
    /\ it.now = Dangling
    /\ trav.nones = 1
    /\ Cardinality(InTree) >= 2

\* C12: erase_iter with a cursor that is exhausted, or whose node is gone, changes
\* nothing: size, contents, shape, root, min_node and max_node are as before.
C12_EraseIterGone ==
    [][(last'.op = "erase_iter" /\ it.now \in {Nil, Dangling}) =>
          /\ UNCHANGED <<nodes, root, size, min_node, max_node, panic, bag>>
          /\ \A w \in Values : contains(T', w) <=> contains(T, w)]_vars

\* erase_iter was called with a cursor whose node was gone
C12_Witness ==
    /\ last.op = "erase_iter" /\ last.how = "dangling"
    /\ Cardinality(InTree) >= 2

\* C13: erase_iter with a cursor on a live node holding v leaves the tree erase(v)
\* would leave, whatever the cursor's repeat count.
C13_EraseIterAsErase ==
    [][(last'.op = "erase_iter" /\ it.now \notin {Nil, Dangling}) =>
          /\ last'.arg = nodes[it.now].data
          /\ T' = Settled(erase(T, nodes[it.now].data))]_vars

\* erase_iter took a value held once by a node with two children
C13_Witness ==
    /\ last.op = "erase_iter" /\ last.how = "two"
    /\ ~contains(T, last.arg)
    /\ Cardinality(InTree) >= 2

\* C14: once next() has returned None on a cursor, every later next() on that
\* cursor returns None, whatever was inserted or erased in between.
C14_ExhaustedForEver ==
    [][(last'.op = "next" /\ trav.nones > 0) =>
          last'.arg = Nil /\ last'.how = "none"]_vars

\* a cursor that ran off the end of a traversal has returned None a second time,
\* after the tree was changed and while it holds values
C14_Witness ==
    /\ last.op = "next" /\ last.how = "none"
    /\ trav.nones = 2
    /\ ~trav.clean
    /\ it = [now |-> Nil, counter |-> 1]
    /\ root # Nil

\* C15: a cursor from max_iter(), on a tree not changed since, yields the largest
\* value of the tree and nothing else, as often as the counter of its node says,
\* and then None; max_iter() and min_iter() return None exactly on the empty tree.
C15_MaxIter ==
    /\ (trav.active /\ trav.clean /\ trav.from = "max_iter") =>
          /\ \A i \in 1..Len(trav.yielded) : trav.yielded[i] = max_value(T)
          /\ \A v \in Stored : v <= max_value(T)
          /\ Len(trav.yielded) <= bag[max_value(T)]
          /\ trav.nones > 0 => Len(trav.yielded) = bag[max_value(T)]
          /\ Len(trav.yielded) = bag[max_value(T)] => next(T, it).ret = Nil
    /\ last.op \in {"max_iter", "min_iter"} =>
          /\ last.how = "none" <=> size = 0
          /\ last.how = "some" <=> trav.active

\* a cursor from max_iter() gave the largest value twice and then None, in a tree
\* that holds smaller values too
C15_Witness ==
    /\ trav.active /\ trav.clean /\ trav.from = "max_iter"
    /\ last.op = "next" /\ last.how = "none"
    /\ Len(trav.yielded) = 2
    /\ Cardinality(InTree) >= 2

\* C16: a tree whose root has stored height h holds at least N(h) nodes, where
\* N(0) = 1, N(1) = 2 and N(h) = N(h-1) + N(h-2) + 1.
C16_LogHeight ==
    root # Nil => Cardinality(InTree) >= MinNodes(nodes[root].height)

\* an erase left four nodes under a root of height 2, the fewest that height allows
C16_Witness ==
    /\ last.op = "erase" /\ last.how \in {"leaf", "one", "two"}
    /\ Cardinality(InTree) = 4
    /\ nodes[root].height = 2

\* C17 as stated: after an erase that finds its value, held once, at a node with
\* two children, that node has the parent and the right subtree it had, holds the
\* value and the counter of its in-order predecessor, the predecessor's node is
\* the one taken out, size is one less and no other multiplicity has changed.
C17_StaysInPlace ==
    [][TwoChildErase =>
          \A x \in {find_node(T, last'.arg)}, p \in {Victim(last'.arg)}, c \in {Call} :
              Swapped(x, p, c) /\ InPlace(x, c) /\ EraseOfThree(c)]_vars

\* C17, amended: the same, except that the node keeps its parent and its right
\* subtree only if the rebalance walk after the removal does not rotate at it;
\* if the walk finds it out of balance, it is rotated down to the left and its
\* new parent is a node of its former right subtree.
C17_TwoChildErase ==
    [][TwoChildErase =>
          \A x \in {find_node(T, last'.arg)}, p \in {Victim(last'.arg)}, c \in {Call} :
              /\ Swapped(x, p, c)
              /\ EraseOfThree(c)
              /\ IF RotatedAt(x, c)
                 THEN c.nodes[x].parent \in Below(nodes[x].right)
                 ELSE InPlace(x, c)]_vars

\* a two-child erase after which the walk rotated at the node: the root's value
\* was erased and the root now holds a value of its former right subtree
C17_Witness ==
    /\ last.op = "erase" /\ last.how = "two"
    /\ last.arg = last.root_was
    /\ root_value > last.arg
    /\ Cardinality(InTree) = 4

\* C18: where the rebalance walk of a call finds a node with balance factor 2 or
\* -2, it rotates twice exactly if the child on the heavy side leans the other
\* way (-1 under 2, 1 under -2) and once otherwise, and the node then standing at
\* that level and its two children have balance factors within -1..1 and stored
\* heights that fit their children's.
C18_OneRotationEvent ==
    [][LET level_ok(e) ==
               e.balance \in {2, 0 - 2} =>
                   /\ e.heavy # Nil
                   /\ e.top # e.heavy <=> \/ e.balance = 2 /\ e.child = 0 - 1
                                          \/ e.balance = 0 - 2 /\ e.child = 1
                   /\ e.top # e.node
                   /\ e.balances \subseteq (0 - 1)..1
                   /\ e.stale = {}
       IN  \A c \in {Call} :
               /\ \A e \in Range(c.levels) : level_ok(e)
               /\ T' = Settled(c)]_vars

\* an erase of a leaf rotated once at the root, whose heavy-side child was in
\* balance: the new root's left child has kept a right child
C18_Witness ==
    /\ last.op = "erase" /\ last.how = "leaf"
    /\ last.root_was # root_value
    /\ Cardinality(InTree) = 4
    /\ nodes[root].left # Nil /\ nodes[root].right # Nil
    /\ nodes[nodes[root].left].right # Nil

\* C19: every balance factor that rebalance_node computes, after it has recomputed
\* the node's height, lies within -2..2.
C19_BalanceRange ==
    [][\A c \in {Call} :
           \A e \in Range(c.levels) : e.balance \in (0 - 2)..2]_vars

\* an insert found balance factor -2 or 2 at the root of three nodes and rotated
\* once: a child of the old root is the new root, and the new leaf its child
C19_Witness ==
    /\ last.op = "insert" /\ last.how = "leaf"
    /\ last.root_was \notin {Nil, root_value}
    /\ last.arg # root_value
    /\ Cardinality(InTree) = 3

\* C20: rotate_left and rotate_right change the stored height of the node they
\* rotate and of the child promoted over it, and of no other node.
C20_OnlyTwoHeights ==
    [][\A c \in {Call} :
           \A e \in Range(c.rots) : e.changed \subseteq {e.node, e.child}]_vars

\* C21: every rotate_left on a node with a right child, and every rotate_right
\* on a node with a left child, keeps the in-order sequence of (value, counter)
\* pairs, puts the promoted child into the slot the node had in its parent (or
\* makes it the root, with no parent link), makes the node the promoted child's
\* child on the side rotated to, hangs the promoted child's former subtree of
\* that side in the slot the promoted child left, and sets the parent links of
\* the three to match.
C21_RotationRelinks ==
    [][\A c \in {Call} :
           \A e \in Range(c.rots) :
               /\ e.child # Nil
               /\ IF e.pre.nodes[e.node].right = e.child
                  THEN Relinked(e, "left", "right")
                  ELSE Relinked(e, "right", "left")]_vars

\* an erase of a leaf rotated the root to the right, and the promoted child's
\* former right subtree now hangs left of the old root
C21_Witness ==
    /\ last.op = "erase" /\ last.how = "leaf"
    /\ last.root_was > root_value
    /\ Cardinality(InTree) = 4
    /\ nodes[root].right # Nil
    /\ nodes[nodes[root].right].left # Nil

\* C22: insert(v) of a value the tree holds adds 1 to the counter of the node
\* holding v and to size, and changes nothing else: the nodes, their links,
\* values and heights, the root, min_node and max_node are as before, and the
\* call neither walks up to rebalance nor rotates.
C22_InsertPresent ==
    [][(last'.op = "insert" /\ bag[last'.arg] > 0) =>
          \A n \in {find_node(T, last'.arg)}, c \in {Call} :
              /\ n # Nil
              /\ nodes' = [nodes EXCEPT ![n].counter = @ + 1]
              /\ size' = size + 1
              /\ UNCHANGED <<root, min_node, max_node, panic>>
              /\ c.rots = <<>> /\ c.levels = <<>>
              /\ T' = Settled(c)]_vars

\* a second occurrence of the root's value was inserted into a tree of three
\* nodes
C22_Witness ==
    /\ last.op = "insert" /\ last.how = "count"
    /\ last.arg = root_value
    /\ nodes[root].counter = 2
    /\ Cardinality(InTree) = 3

\* C23: erase(v), or erase_iter on the node holding v, where that node's counter
\* is above 1, takes 1 from that counter and from size, and changes nothing
\* else: the nodes, their links, values and heights, the root, min_node and
\* max_node are as before, no rotation happens, and contains(v) stays true.
C23_EraseRepeated ==
    [][(last'.op \in {"erase", "erase_iter"} /\ last'.arg # Nil
          /\ find_node(T, last'.arg) # Nil
          /\ nodes[find_node(T, last'.arg)].counter > 1) =>
          \A n \in {find_node(T, last'.arg)}, c \in {Call} :
              /\ nodes' = [nodes EXCEPT ![n].counter = @ - 1]
              /\ size' = size - 1
              /\ UNCHANGED <<root, min_node, max_node, panic>>
              /\ c.rots = <<>> /\ c.levels = <<>>
              /\ contains(T', last'.arg)
              /\ T' = Settled(c)]_vars

\* erase_iter took one of three occurrences from a node with two children
C23_Witness ==
    /\ last.op = "erase_iter" /\ last.how = "count"
    /\ bag[last.arg] = 2
    /\ count_children(T, find_node(T, last.arg)) = 2

\* C24: no call panics: not on an unexpected number of children, not on a debug
\* assertion, not on the unwrap of a parent link, not on the underflow of a
\* counter or of size.
C24_NoFatalPath == ~panic

\* a cursor is held, and an erase has just taken out a node with one child: the
\* child count, the position in the parent and the parent link were all used
C24_Witness ==
    /\ ~panic
    /\ trav.active
    /\ last.op = "erase" /\ last.how = "one"
    /\ last.root_was = root_value
    /\ size >= 2

\* C25: a cursor that stands on a live node has a repeat count of at least 1 and
\* at most the counter of that node, in every state that insert, erase,
\* erase_iter and next() can reach.
C25_RepeatInRange ==
    (trav.active /\ it.now \notin {Nil, Dangling}) =>
        it.counter >= 1 /\ it.counter <= nodes[it.now].counter

\* C26: every value next() returns is a value the tree holds when the call is
\* made, whatever was inserted or erased since the cursor was made, and next()
\* does not panic.
C26_YieldsContained ==
    [][(last'.op = "next" /\ last'.arg # Nil) =>
          /\ contains(T, last'.arg)
          /\ bag[last'.arg] > 0
          /\ ~panic']_vars

\* next() has returned a value after the tree was changed under the cursor; the
\* value is held, and it is not the smallest the tree holds
C26_Witness ==
    /\ last.op = "next" /\ last.how = "some"
    /\ ~trav.clean
    /\ contains(T, last.arg)
    /\ last.arg # min_value(T)
    /\ Cardinality(InTree) >= 2

\* this step is an erase of the last occurrence of a value, and the cursor
\* stands on a live node that holds another value
ErasesBesideCursor ==
    /\ last'.op = "erase" /\ bag[last'.arg] = 1
    /\ trav.active /\ it.now \notin {Nil, Dangling}
    /\ nodes[it.now].data # last'.arg

\* after this step the cursor stands on a live node holding what its node held
\* before, and its next() returns that value
CursorKept ==
    /\ it'.now \notin {Nil, Dangling}
    /\ it'.counter = it.counter
    /\ nodes'[it'.now].data = nodes[it.now].data
    /\ next(T', it').ret = nodes[it.now].data

\* C28 as stated: an erase that takes the last occurrence of a value v leaves
\* every cursor that stood on a node holding another value w on a live node
\* holding w, and the cursor's next() returns w.
C28_OtherCursorsLive == [][ErasesBesideCursor => CursorKept]_vars

\* C28, amended: the same, except for a cursor on the node of v's in-order
\* predecessor when v's node has two children: that node is the one taken out
\* of the tree, the cursor's node is gone and its next() returns None.
C28_OnlyVictimLost ==
    [][ErasesBesideCursor =>
          IF it.now = Victim(last'.arg)
          THEN /\ erase_case(find_node(T, last'.arg)) = "two"
               /\ it' = [it EXCEPT !.now = Dangling]
               /\ next(T', it').ret = Nil
               /\ contains(T', nodes[it.now].data)
          ELSE CursorKept]_vars

\* the last occurrence of a value was erased from a node with two children, and
\* the cursor stands on a live node of a larger value, which it stood on before
C28_Witness ==
    /\ last.op = "erase" /\ last.how = "two"
    /\ trav.active /\ it.now \notin {Nil, Dangling}
    /\ nodes[it.now].data > last.arg
    /\ Cardinality(InTree) >= 2

\* C27: the values one cursor yields never descend: no next() returns a value
\* smaller than one the cursor has returned before, whatever was inserted or
\* erased in between.
C27_NeverDescends ==
    [][(last'.op = "next" /\ last'.arg # Nil) => last'.arg >= trav.top]_vars

====
